---- MODULE Spec2Model ----
(***************************************************************************)
(* Connection monitor (RadoslawVoluum/Logger).  The repository holds three *)
(* versions of the App component:                                          *)
(*   "app" : src/src/App.tsx                                               *)
(*   "v1"  : src/unnamed/part_000, lines 1-330                             *)
(*   "v2"  : src/unnamed/part_000, lines 331-494                           *)
(* The state is the component's React state and refs, the browser's armed  *)
(* interval timers, the fetches in flight and a clock in whole seconds.    *)
(* A callback handed to setInterval, and a fetch's continuation, read the  *)
(* state of the render that created them: each timer and each fetch in     *)
(* flight carries the values its closure captured.                         *)
(*                                                                         *)
(* The scheduler is modelled for "app" and "v2".  v1's handlers are those  *)
(* of app up to the refs stopMonitoring leaves set; what v1 computes       *)
(* differently (the grouping of the log, the text of a record) is modelled *)
(* as operators and exercised by PureSpec.                                 *)
(*                                                                         *)
(* Time: the model visits the instants at which an armed timer is due.     *)
(* While no timer is armed nothing is scheduled and the clock stands.      *)
(***************************************************************************)
EXTENDS Integers, Sequences, FiniteSets, TLC

VARIABLES
  build,          \* which version of App is running
  interval,       \* `interval` (app, v1) / `pingDelay` (v2), seconds
  isMonitoring,
  logs,           \* sequence of LogEntry
  totalDowntime,  \* milliseconds
  emailAddress,
  isEmailEnabled,
  pingUrl,        \* v2 only
  timerRef,       \* timerRef.current: a timer id, or NoTimer
  emailTimerRef,  \* emailTimerRef.current
  probeTimers,    \* armed setInterval(checkConnection, ...) timers
  emailTimers,    \* armed setInterval(sendLogsEmail, ...) timers
  inflight,       \* checkConnection calls awaiting their fetch
  issued,         \* number of checkConnection calls so far
  now,            \* clock, seconds
  io              \* the external effect of the last step

vars == <<build, interval, isMonitoring, logs, totalDowntime, emailAddress,
          isEmailEnabled, pingUrl, timerRef, emailTimerRef, probeTimers,
          emailTimers, inflight, issued, now, io>>

----------------------------------------------------------------------------
(* Bounds of the exploration *)

MaxProbes == 2
MaxTime == 30
MaxLogLen == 5
MaxDays == 1

(* Program constants *)

DefaultInterval == 5
DefaultPingDelay == 15
SentinelTtl == 64
NoTimer == 0

AllBuilds == {"app", "v1", "v2"}
Builds == {"app", "v2"}

DefaultUrl == "https://www.google.com/favicon.ico"
UrlInputs == {DefaultUrl, "https://example.org/"}
IntervalInputs == {1, DefaultInterval}
EmailInputs == {"", "ops@example.org"}
\* sub-second part of a measured elapsed time, in ms: on the second, or just
\* past it.  Only v2 compares the elapsed time (part_000:375); elsewhere it is
\* taken on the second.
SubSecondMs == IF build = "v2" THEN {0, 1} ELSE {0}

NoIO == [kind |-> "none"]
NoTtl == -1

----------------------------------------------------------------------------
(* Pure helpers *)

RECURSIVE Join(_, _)
\* Array.prototype.join
Join(parts, sep) ==
  IF Len(parts) = 0 THEN ""
  ELSE IF Len(parts) = 1 THEN parts[1]
  ELSE parts[1] \o sep \o Join(Tail(parts), sep)

\* parts.push under a condition
PushIf(parts, cond, part) == IF cond THEN Append(parts, part) ELSE parts

\* mutant: the whole duration is given in seconds
formatDuration_SecondsOnly(ms) == ToString(ms \div 1000) \o "s"

formatDuration(ms) ==
  LET seconds == ms \div 1000
      minutes == seconds \div 60
      hours == minutes \div 60
      days == hours \div 24
      remainingHours == hours % 24
      remainingMinutes == minutes % 60
      remainingSeconds == seconds % 60
      p1 == PushIf(<<>>, days > 0, ToString(days) \o "d")
      p2 == PushIf(p1, remainingHours > 0, ToString(remainingHours) \o "h")
      p3 == PushIf(p2, remainingMinutes > 0, ToString(remainingMinutes) \o "m")
      parts == PushIf(p3, remainingSeconds > 0, ToString(remainingSeconds) \o "s")
  IN IF Join(parts, " ") = "" THEN "0s" ELSE Join(parts, " ")

\* new Date().toISOString() of the instant t (seconds of the model's clock)
ToISOString(t) == "T" \o ToString(t) \o "Z"
\* new Date(iso).toLocaleString() of the instant t
ToLocaleString(t) == "L" \o ToString(t)

OfflineCount(currentLogs) ==
  Cardinality({i \in 1..Len(currentLogs) : ~currentLogs[i].status})

calculateTotalDowntime(currentLogs, capturedInterval) ==
  OfflineCount(currentLogs) * capturedInterval * 1000

\* Math.round(end - start) for a fetch issued at `timestamp`
ResponseTime(timestamp, sub) == (now - timestamp) * 1000 + sub

\* the LogEntry of the try branch
SuccessEntry(p, sub) ==
  [timestamp |-> p.timestamp,
   status |-> IF build = "v2"
              THEN ResponseTime(p.timestamp, sub) <= p.interval * 1000
              ELSE TRUE,
   responseTime |-> ResponseTime(p.timestamp, sub),
   ttl |-> SentinelTtl]

\* the LogEntry of the catch branch
FailureEntry(p, sub) ==
  [timestamp |-> p.timestamp,
   status |-> FALSE,
   responseTime |-> ResponseTime(p.timestamp, sub),
   ttl |-> NoTtl]

\* what the render's checkConnection closes over
ProbeClosure == [interval |-> interval, url |-> IF build = "v2" THEN pingUrl ELSE DefaultUrl]

\* what the render's sendLogsEmail closes over
EmailClosure ==
  [emailAddress |-> emailAddress, logs |-> logs,
   totalDowntime |-> totalDowntime, interval |-> interval]

----------------------------------------------------------------------------
(* generateDowntimeSummary: the forEach over logs.  A fold state is        *)
(* [sequences, currentSequence, isInDowntime]; index is the 0-based index. *)

GroupInit == [sequences |-> <<>>, currentSequence |-> <<>>, isInDowntime |-> FALSE]

\* mutant: the count of the open incident is not incremented
BumpLast_NoIncrement(sequences) == sequences

\* sequences[sequences.length - 1].count++
BumpLast(sequences) ==
  [sequences EXCEPT ![Len(sequences)].count = @ + 1]

\* mutant: a reachable record does not close the open incident
GroupStepApp_NoReset(st, log, index) ==
  IF ~log.status
  THEN IF Len(st.currentSequence) = 0
       THEN [st EXCEPT !.sequences = Append(@, [start |-> log.timestamp, count |-> 1]),
                       !.currentSequence = <<log>>]
       ELSE [st EXCEPT !.sequences = BumpLast(@),
                       !.currentSequence = Append(@, log)]
  ELSE st

\* src/src/App.tsx: opens on currentSequence.length === 0
GroupStepApp(st, log, index) ==
  IF ~log.status
  THEN IF Len(st.currentSequence) = 0
       THEN [st EXCEPT !.sequences = Append(@, [start |-> log.timestamp, count |-> 1]),
                       !.currentSequence = <<log>>]
       ELSE [st EXCEPT !.sequences = BumpLast(@),
                       !.currentSequence = Append(@, log)]
  ELSE [st EXCEPT !.currentSequence = <<>>]

\* part_000 (v1): opens on currentSequence.length === 0 || index === 0
GroupStepV1(st, log, index) ==
  IF ~log.status
  THEN IF Len(st.currentSequence) = 0 \/ index = 0
       THEN [st EXCEPT !.sequences = Append(@, [start |-> log.timestamp, count |-> 1]),
                       !.currentSequence = <<log>>]
       ELSE [st EXCEPT !.sequences = BumpLast(@),
                       !.currentSequence = Append(@, log)]
  ELSE [st EXCEPT !.currentSequence = <<>>]

\* mutant: a reachable record does not end the downtime
GroupStepV2_NoReset(st, log, index) ==
  IF ~log.status
  THEN IF ~st.isInDowntime
       THEN [st EXCEPT !.sequences = Append(@, [start |-> log.timestamp, count |-> 1]),
                       !.isInDowntime = TRUE]
       ELSE [st EXCEPT !.sequences = BumpLast(@)]
  ELSE st

\* part_000 (v2): opens on !isInDowntime
GroupStepV2(st, log, index) ==
  IF ~log.status
  THEN IF ~st.isInDowntime
       THEN [st EXCEPT !.sequences = Append(@, [start |-> log.timestamp, count |-> 1]),
                       !.isInDowntime = TRUE]
       ELSE [st EXCEPT !.sequences = BumpLast(@)]
  ELSE [st EXCEPT !.isInDowntime = FALSE]

GroupStep(b, st, log, index) ==
  CASE b = "app" -> GroupStepApp(st, log, index)
    [] b = "v1" -> GroupStepV1(st, log, index)
    [] b = "v2" -> GroupStepV2(st, log, index)

RECURSIVE ForEach(_, _, _, _)
\* logs.forEach((log, index) => ...) from 1-based position i on
ForEach(b, ls, i, st) ==
  IF i > Len(ls) THEN st
  ELSE ForEach(b, ls, i + 1, GroupStep(b, st, ls[i], i - 1))

\* the `sequences` array after the forEach
DowntimeSequences(b, ls) == ForEach(b, ls, 1, GroupInit).sequences

\* one line of the numbered list (app, v1)
PeriodLine(seq, index, ivl) ==
  LET duration == seq.count * ivl
  IN ToString(index + 1) \o ". From " \o ToLocaleString(seq.start) \o " to "
       \o ToLocaleString(seq.start + duration) \o " ("
       \o formatDuration(duration * 1000) \o ")\n"

\* one line of the numbered list (v2)
PeriodLineV2(seq, index, ivl) ==
  ToString(index + 1) \o ". Start: " \o ToLocaleString(seq.start)
    \o ", Duration: " \o ToString(seq.count * ivl) \o "s\n"

\* v2's fallback text (part_000:451); app and v1 have none
NoDowntimeSentinel == "No downtimes recorded."

generateDowntimeSummary(b, ls, ivl) ==
  LET sequences == DowntimeSequences(b, ls)
      lines == [k \in 1..Len(sequences) |->
                  IF b = "v2" THEN PeriodLineV2(sequences[k], k - 1, ivl)
                  ELSE PeriodLine(sequences[k], k - 1, ivl)]
  IN IF b = "v2"
     THEN LET summary == "\nDowntime Periods:\n" \o Join(lines, "")
          IN IF summary = "" THEN NoDowntimeSentinel ELSE summary
     ELSE IF Len(sequences) > 0
          THEN "\nDowntime Periods:\n" \o Join(lines, "")
          ELSE ""

\* log.ttl ?? 'N/A' (app), log.ttl || 'N/A' (v1)
TtlText(ttl) == IF ttl = NoTtl THEN "N/A" ELSE ToString(ttl)

DetailedLine(log) ==
  ToISOString(log.timestamp) \o " | Status: "
    \o (IF log.status THEN "Online" ELSE "Offline")
    \o " | Response Time: " \o ToString(log.responseTime) \o "ms | TTL: "
    \o TtlText(log.ttl)

DetailedLogs(ls) == Join([k \in 1..Len(ls) |-> DetailedLine(ls[k])], "\n")

----------------------------------------------------------------------------
Init ==
  /\ build \in Builds
  /\ interval = IF build = "v2" THEN DefaultPingDelay ELSE DefaultInterval
  /\ isMonitoring = FALSE
  /\ logs = <<>>
  /\ totalDowntime = 0
  /\ emailAddress = ""
  /\ isEmailEnabled = FALSE
  /\ pingUrl = DefaultUrl
  /\ timerRef = NoTimer
  /\ emailTimerRef = NoTimer
  /\ probeTimers = {}
  /\ emailTimers = {}
  /\ inflight = {}
  /\ issued = 0
  /\ now = 0
  /\ io = NoIO

----------------------------------------------------------------------------
(* checkConnection up to its await: samples the clock and starts the fetch *)
IssueProbe(cb) ==
  /\ issued < MaxProbes
  /\ issued' = issued + 1
  /\ inflight' = inflight \cup
       {[seq |-> issued + 1, timestamp |-> now,
         interval |-> cb.interval, url |-> cb.url]}

\* mutant: the new record is put in front of the log
AppendLog_Prepend(entry, capturedInterval) ==
  /\ logs' = <<entry>> \o logs
  /\ totalDowntime' = calculateTotalDowntime(Append(logs, entry), capturedInterval)

(* setLogs(prev => [...prev, newLog]) with calculateTotalDowntime inside *)
AppendLog(entry, capturedInterval) ==
  /\ logs' = Append(logs, entry)
  /\ totalDowntime' = calculateTotalDowntime(Append(logs, entry), capturedInterval)

\* window.setInterval(checkConnection, interval * 1000) as armed by this render
\* the id a setInterval call returns: a positive integer that names no armed
\* timer (and, ids never being reused in practice, none a ref still holds)
FreshTimerId(used) == CHOOSE n \in 1..(Cardinality(used) + 1) : n \notin used
ProbeTimerId ==
  FreshTimerId({t.id : t \in probeTimers \cup emailTimers}
                 \cup {timerRef, emailTimerRef})
EmailTimerId ==
  FreshTimerId({t.id : t \in probeTimers \cup emailTimers}
                 \cup {timerRef, emailTimerRef, ProbeTimerId})

NewProbeTimer ==
  [id |-> ProbeTimerId, due |-> now + interval, period |-> interval,
   cb |-> ProbeClosure]

\* window.setInterval(sendLogsEmail, 60 * 60 * 1000) as armed by this render
NewEmailTimer == [id |-> EmailTimerId, cb |-> EmailClosure]

\* clearInterval(id)
ClearInterval(timers, id) == {t \in timers : t.id # id}

\* mutant: the button starts whatever the state
StartEnabled_Always == TRUE

\* the button's onClick: isMonitoring ? stopMonitoring : startMonitoring
StartEnabled == ~isMonitoring
StopEnabled == isMonitoring

\* isEmailEnabled && emailAddress
ArmsEmail == isEmailEnabled /\ emailAddress # ""

\* mutant: the first probe is left to the first tick
ImmediateProbe_Deferred == UNCHANGED <<inflight, issued>>

\* the checkConnection() call made by startMonitoring and by v2's effect
ImmediateProbe == IssueProbe(ProbeClosure)

\* mutant: a start begins with an empty log
LogsAfterStart_Reset == <<>>

\* the log as startMonitoring leaves it
LogsAfterStart == logs

startMonitoring ==
  /\ isMonitoring' = TRUE
  /\ ImmediateProbe
  /\ probeTimers' = probeTimers \cup {NewProbeTimer}
  /\ timerRef' = ProbeTimerId
  /\ IF ArmsEmail
     THEN /\ emailTimers' = emailTimers \cup {NewEmailTimer}
          /\ emailTimerRef' = EmailTimerId
     ELSE UNCHANGED <<emailTimers, emailTimerRef>>
  /\ logs' = LogsAfterStart
  /\ io' = NoIO
  /\ UNCHANGED <<build, interval, totalDowntime, emailAddress,
                 isEmailEnabled, pingUrl, now>>

\* the timers left armed by stopMonitoring's two clearInterval calls
ProbeTimersAfterStop ==
  ClearInterval(ClearInterval(probeTimers, timerRef), emailTimerRef)
\* mutant: only the probe timer is cleared
EmailTimersAfterStop_Leak == ClearInterval(emailTimers, timerRef)
EmailTimersAfterStop ==
  ClearInterval(ClearInterval(emailTimers, timerRef), emailTimerRef)
\* the log as stopMonitoring leaves it
LogsAfterStop == logs

\* mutant: a stop drops the probes in flight
stopMonitoring_Discards ==
  /\ isMonitoring' = FALSE
  /\ probeTimers' = ProbeTimersAfterStop
  /\ emailTimers' = EmailTimersAfterStop
  /\ timerRef' = NoTimer
  /\ emailTimerRef' = NoTimer
  /\ logs' = LogsAfterStop
  /\ inflight' = {}
  /\ io' = NoIO
  /\ UNCHANGED <<build, interval, totalDowntime, emailAddress,
                 isEmailEnabled, pingUrl, issued, now>>

stopMonitoring ==
  /\ isMonitoring' = FALSE
  /\ probeTimers' = ProbeTimersAfterStop
  /\ emailTimers' = EmailTimersAfterStop
  /\ timerRef' = NoTimer
  /\ emailTimerRef' = NoTimer
  /\ logs' = LogsAfterStop
  /\ io' = NoIO
  /\ UNCHANGED <<build, interval, totalDowntime, emailAddress,
                 isEmailEnabled, pingUrl, inflight, issued, now>>

StartClick == build = "app" /\ StartEnabled /\ startMonitoring
StopClick == build = "app" /\ StopEnabled /\ stopMonitoring

(* v2: setIsMonitoring(!isMonitoring), then the effect on [isMonitoring,   *)
(* pingDelay]: the previous effect's cleanup, then the effect body.        *)
ToggleMonitoring ==
  /\ build = "v2"
  /\ isMonitoring' = ~isMonitoring
  /\ IF ~isMonitoring
     THEN /\ ImmediateProbe
          /\ probeTimers' = ClearInterval(probeTimers, timerRef) \cup {NewProbeTimer}
          /\ timerRef' = ProbeTimerId
     ELSE /\ probeTimers' = ClearInterval(probeTimers, timerRef)
          /\ UNCHANGED <<timerRef, inflight, issued>>
  /\ io' = NoIO
  /\ UNCHANGED <<build, interval, logs, totalDowntime, emailAddress,
                 isEmailEnabled, pingUrl, emailTimerRef, emailTimers, now>>

\* mutant: a tick is held back while a probe is in flight
Tick_Serialised(t) ==
  /\ t \in probeTimers
  /\ t.due = now
  /\ inflight = {}
  /\ IssueProbe(t.cb)
  /\ probeTimers' = (probeTimers \ {t}) \cup {[t EXCEPT !.due = @ + t.period]}
  /\ io' = NoIO
  /\ UNCHANGED <<build, interval, isMonitoring, logs, totalDowntime,
                 emailAddress, isEmailEnabled, pingUrl, timerRef,
                 emailTimerRef, emailTimers, now>>

(* One firing of the periodic probe trigger *)
Tick(t) ==
  /\ t \in probeTimers
  /\ t.due = now
  /\ IssueProbe(t.cb)
  /\ probeTimers' = (probeTimers \ {t}) \cup {[t EXCEPT !.due = @ + t.period]}
  /\ io' = NoIO
  /\ UNCHANGED <<build, interval, isMonitoring, logs, totalDowntime,
                 emailAddress, isEmailEnabled, pingUrl, timerRef,
                 emailTimerRef, emailTimers, now>>

\* v2 only: the AbortController's timer fires pingDelay seconds after the issue
AbortDue(p) == build = "v2" /\ now - p.timestamp >= p.interval

\* mutant: the catch branch rethrows and appends nothing
CatchBranch_Rethrow(p, sub) == UNCHANGED <<logs, totalDowntime>>

\* the catch branch: the record appended for a failed fetch
CatchBranch(p, sub) == AppendLog(FailureEntry(p, sub), p.interval)

(* checkConnection after its await, fetch fulfilled *)
FetchResolve(p, sub) ==
  /\ p \in inflight
  /\ build = "v2" => now - p.timestamp <= p.interval
  /\ inflight' = inflight \ {p}
  /\ AppendLog(SuccessEntry(p, sub), p.interval)
  /\ io' = NoIO
  /\ UNCHANGED <<build, interval, isMonitoring, emailAddress, isEmailEnabled,
                 pingUrl, timerRef, emailTimerRef, probeTimers, emailTimers,
                 issued, now>>

(* checkConnection after its await, fetch rejected by the transport *)
FetchReject(p, sub) ==
  /\ p \in inflight
  /\ build = "v2" => now - p.timestamp <= p.interval
  /\ inflight' = inflight \ {p}
  /\ CatchBranch(p, sub)
  /\ io' = NoIO
  /\ UNCHANGED <<build, interval, isMonitoring, emailAddress, isEmailEnabled,
                 pingUrl, timerRef, emailTimerRef, probeTimers, emailTimers,
                 issued, now>>

(* v2: controller.abort() rejects the fetch *)
Abort(p, sub) ==
  /\ p \in inflight
  /\ AbortDue(p)
  /\ inflight' = inflight \ {p}
  /\ CatchBranch(p, sub)
  /\ io' = NoIO
  /\ UNCHANGED <<build, interval, isMonitoring, emailAddress, isEmailEnabled,
                 pingUrl, timerRef, emailTimerRef, probeTimers, emailTimers,
                 issued, now>>

\* the instants at which an armed timer is due
DueTimes ==
  {t.due : t \in probeTimers}
    \cup {p.timestamp + p.interval : p \in {q \in inflight : build = "v2"}}

\* the next instant the model visits: the earliest due timer
NextInstant ==
  IF DueTimes = {} THEN now
  ELSE CHOOSE d \in DueTimes : \A e \in DueTimes : d <= e

(* Time passes up to the next instant; a timer that is due fires first *)
Advance ==
  /\ NextInstant > now
  /\ NextInstant <= MaxTime
  /\ now' = NextInstant
  /\ io' = NoIO
  /\ UNCHANGED <<build, interval, isMonitoring, logs, totalDowntime,
                 emailAddress, isEmailEnabled, pingUrl, timerRef,
                 emailTimerRef, probeTimers, emailTimers, inflight, issued>>

\* the inputs are disabled={isMonitoring}
ConfigEditable == ~isMonitoring

SetInterval(n) ==
  /\ build = "app"
  /\ ConfigEditable
  /\ n # interval
  /\ interval' = n
  /\ io' = NoIO
  /\ UNCHANGED <<build, isMonitoring, logs, totalDowntime, emailAddress,
                 isEmailEnabled, pingUrl, timerRef, emailTimerRef,
                 probeTimers, emailTimers, inflight, issued, now>>

\* v2's URL input is never disabled.  App.tsx renders a URL input too, bound to
\* pingUrl and setPingUrl, which App.tsx never declares: app has no such state.
SetPingUrl(u) ==
  /\ build = "v2"
  /\ u # pingUrl
  /\ pingUrl' = u
  /\ io' = NoIO
  /\ UNCHANGED <<build, interval, isMonitoring, logs, totalDowntime,
                 emailAddress, isEmailEnabled, timerRef, emailTimerRef,
                 probeTimers, emailTimers, inflight, issued, now>>

\* app renders the address input only while isEmailEnabled
SetEmailAddress(e) ==
  /\ build = "app"
  /\ ConfigEditable
  /\ build = "app" => isEmailEnabled
  /\ e # emailAddress
  /\ emailAddress' = e
  /\ io' = NoIO
  /\ UNCHANGED <<build, interval, isMonitoring, logs, totalDowntime,
                 isEmailEnabled, pingUrl, timerRef, emailTimerRef,
                 probeTimers, emailTimers, inflight, issued, now>>

SetIsEmailEnabled ==
  /\ build = "app"
  /\ ConfigEditable
  /\ isEmailEnabled' = ~isEmailEnabled
  /\ io' = NoIO
  /\ UNCHANGED <<build, interval, isMonitoring, logs, totalDowntime,
                 emailAddress, pingUrl, timerRef, emailTimerRef,
                 probeTimers, emailTimers, inflight, issued, now>>

\* app's Save and Clear buttons are always enabled; v2 has neither
LogButtonsEnabled == build = "app"

\* mutant: a clear empties the log and keeps the stored total
clearLogs_KeepsTotal ==
  /\ logs' = <<>>
  /\ totalDowntime' = totalDowntime

clearLogs ==
  /\ logs' = <<>>
  /\ totalDowntime' = 0

ClearClick ==
  /\ LogButtonsEnabled
  /\ clearLogs
  /\ io' = NoIO
  /\ UNCHANGED <<build, interval, isMonitoring, emailAddress, isEmailEnabled,
                 pingUrl, timerRef, emailTimerRef, probeTimers, emailTimers,
                 inflight, issued, now>>

\* the download's file name
FileName == "connection-log-" \o ToISOString(now) \o ".txt"

saveToFile ==
  [kind |-> "download",
   name |-> FileName,
   content |-> "Total Downtime: " \o formatDuration(totalDowntime) \o "\n"
                 \o generateDowntimeSummary(build, logs, interval)
                 \o "\n\nDetailed Logs:\n" \o DetailedLogs(logs)]

\* mutant: saving a report empties the log
SaveClick_Clears ==
  /\ LogButtonsEnabled
  /\ io' = saveToFile
  /\ clearLogs
  /\ UNCHANGED <<build, interval, isMonitoring, emailAddress, isEmailEnabled,
                 pingUrl, timerRef, emailTimerRef, probeTimers, emailTimers,
                 inflight, issued, now>>

SaveClick ==
  /\ LogButtonsEnabled
  /\ io' = saveToFile
  /\ UNCHANGED <<build, interval, isMonitoring, logs, totalDowntime,
                 emailAddress, isEmailEnabled, pingUrl, timerRef,
                 emailTimerRef, probeTimers, emailTimers, inflight, issued, now>>

\* sendLogsEmail of the render that armed the timer; c is what it closed over
sendLogsEmail(c, delivered) ==
  IF c.emailAddress = "" \/ Len(c.logs) = 0
  THEN NoIO
  ELSE [kind |-> "post",
        email |-> c.emailAddress,
        logs |-> DetailedLogs(c.logs),
        totalDowntime |-> formatDuration(c.totalDowntime),
        downtimeSummary |-> generateDowntimeSummary(build, c.logs, c.interval),
        delivered |-> delivered]

\* mutant: a delivery that fails ends the session
EmailTick_FatalOnFailure(t, delivered) ==
  /\ t \in emailTimers
  /\ io' = sendLogsEmail(t.cb, delivered)
  /\ IF delivered
     THEN UNCHANGED <<isMonitoring, timerRef, emailTimerRef, probeTimers,
                      emailTimers>>
     ELSE /\ isMonitoring' = FALSE
          /\ probeTimers' = {}
          /\ emailTimers' = {}
          /\ timerRef' = NoTimer
          /\ emailTimerRef' = NoTimer
  /\ UNCHANGED <<build, interval, logs, totalDowntime, emailAddress,
                 isEmailEnabled, pingUrl, inflight, issued, now>>

(* One firing of the hourly trigger.  Its period of 3600 s is not counted: *)
(* it may fire at any moment while armed.                                   *)
EmailTick(t, delivered) ==
  /\ t \in emailTimers
  /\ io' = sendLogsEmail(t.cb, delivered)
  /\ UNCHANGED <<build, interval, isMonitoring, logs, totalDowntime,
                 emailAddress, isEmailEnabled, pingUrl, timerRef,
                 emailTimerRef, probeTimers, emailTimers, inflight, issued, now>>

Next ==
  \/ StartClick
  \/ StopClick
  \/ ToggleMonitoring
  \/ \E t \in probeTimers : Tick(t)
  \/ \E p \in inflight, sub \in SubSecondMs : FetchResolve(p, sub)
  \/ \E p \in inflight : FetchReject(p, 0)
  \/ \E p \in inflight : Abort(p, 0)
  \/ Advance
  \/ \E n \in IntervalInputs : SetInterval(n)
  \/ \E u \in UrlInputs : SetPingUrl(u)
  \/ \E e \in EmailInputs : SetEmailAddress(e)
  \/ SetIsEmailEnabled
  \/ ClearClick
  \/ SaveClick
  \/ \E t \in emailTimers, delivered \in BOOLEAN : EmailTick(t, delivered)

Spec == Init /\ [][Next]_vars

----------------------------------------------------------------------------
(* The aggregation and the formatting applied to logs drawn from a bounded *)
(* set: every pattern of reachable/unreachable records up to MaxLogLen,    *)
(* one record per probing period.                                          *)

StatusPatterns == UNION {[1..n -> BOOLEAN] : n \in 0..MaxLogLen}

PatternLog(pattern, ivl) ==
  [i \in 1..Len(pattern) |->
     [timestamp |-> (i - 1) * ivl,
      status |-> pattern[i],
      responseTime |-> 0,
      ttl |-> IF pattern[i] THEN SentinelTtl ELSE NoTtl]]

PureInit ==
  /\ build \in AllBuilds
  /\ interval \in (IF build = "v2" THEN {DefaultPingDelay} ELSE IntervalInputs)
  /\ logs \in {PatternLog(pattern, interval) : pattern \in StatusPatterns}
  /\ totalDowntime = calculateTotalDowntime(logs, interval)
  /\ isMonitoring = FALSE
  /\ emailAddress = ""
  /\ isEmailEnabled = FALSE
  /\ pingUrl = DefaultUrl
  /\ timerRef = NoTimer
  /\ emailTimerRef = NoTimer
  /\ probeTimers = {}
  /\ emailTimers = {}
  /\ inflight = {}
  /\ issued = 0
  /\ now = 0
  /\ io = NoIO

(* A render or a report calls generateDowntimeSummary on the current log *)
Summarize ==
  /\ io' = [kind |-> "summary",
            sequences |-> DowntimeSequences(build, logs),
            text |-> generateDowntimeSummary(build, logs, interval)]
  /\ UNCHANGED <<build, interval, isMonitoring, logs, totalDowntime,
                 emailAddress, isEmailEnabled, pingUrl, timerRef,
                 emailTimerRef, probeTimers, emailTimers, inflight, issued,
                 now>>

PureNext == Summarize

PureSpec == PureInit /\ [][PureNext]_vars

----------------------------------------------------------------------------
(* formatDuration applied to durations drawn from a bounded set *)

\* the durations handed to formatDuration: every combination of a zero, a
\* least and a greatest value of each component, with and without a rest of
\* milliseconds
DurationInputs ==
  {d * 86400000 + h * 3600000 + m * 60000 + sec * 1000 + rest :
     d \in 0..MaxDays, h \in {0, 1, 23}, m \in {0, 1, 59},
     sec \in {0, 1, 59}, rest \in {0, 999}}

(* A render or a report calls formatDuration *)
FormatDuration(ms) ==
  /\ io' = [kind |-> "duration", ms |-> ms, text |-> formatDuration(ms)]
  /\ UNCHANGED <<build, interval, isMonitoring, logs, totalDowntime,
                 emailAddress, isEmailEnabled, pingUrl, timerRef,
                 emailTimerRef, probeTimers, emailTimers, inflight, issued,
                 now>>

DurationInit == PureInit /\ logs = <<>>

DurationNext == \E ms \in DurationInputs : FormatDuration(ms)

DurationSpec == DurationInit /\ [][DurationNext]_vars

----------------------------------------------------------------------------
(* Properties *)

StartStep == ~isMonitoring /\ isMonitoring'
StopStep == isMonitoring /\ ~isMonitoring'
\* a firing of an armed probe timer: it is due, and is re-armed one period on
TickStep ==
  \E t \in probeTimers :
    /\ t.due = now
    /\ [t EXCEPT !.due = @ + t.period] \in probeTimers'
\* a checkConnection call runs its continuation: its fetch leaves the set
SettleStep == \E p \in inflight : p \notin inflight'

\* C1: in every reachable state the stored total downtime equals the number
\* of records with status = false times the current interval times 1000.
C1_TotalIsOfflineTimesInterval ==
  totalDowntime = OfflineCount(logs) * interval * 1000

\* C2: the log is in issue order: timestamps are non-decreasing by index.
C2_LogInIssueOrder ==
  \A i, j \in 1..Len(logs) : i < j => logs[i].timestamp <= logs[j].timestamp

\* C3: a start is never performed while Running and a stop never while Idle:
\* at most one probe trigger is armed, exactly while Running; while Running
\* no further timer is armed and a probe is issued only by a tick; while Idle
\* no step other than a start touches the timers or the refs.
C3_StartStopRejected ==
  /\ [](/\ Cardinality(probeTimers) <= 1
        /\ Cardinality(emailTimers) <= 1
        /\ isMonitoring <=> probeTimers # {})
  /\ [][/\ (isMonitoring /\ isMonitoring') =>
             /\ {t.id : t \in probeTimers'} = {t.id : t \in probeTimers}
             /\ emailTimers' = emailTimers
             /\ issued' # issued => TickStep
        /\ (~isMonitoring /\ ~isMonitoring') =>
             UNCHANGED <<probeTimers, emailTimers, timerRef, emailTimerRef,
                         issued>>]_vars
C3_Witness ==
  isMonitoring /\ issued >= 2 /\ Cardinality(probeTimers) = 1

\* the 1-based positions at which a maximal run of unreachable records begins
RunStarts(ls) ==
  {i \in 1..Len(ls) : ~ls[i].status /\ (i = 1 \/ ls[i - 1].status)}
\* the length of the maximal run of unreachable records beginning at i
RunLength(ls, i) ==
  CHOOSE n \in 1..Len(ls) :
    /\ i + n - 1 <= Len(ls)
    /\ \A k \in i..(i + n - 1) : ~ls[k].status
    /\ (i + n > Len(ls) \/ ls[i + n].status)
\* the k-th smallest element of a set of positions
KthOf(S, k) == CHOOSE i \in S : Cardinality({j \in S : j < i}) = k - 1

\* C4: the incidents extracted from a log are exactly its maximal runs of
\* consecutive unreachable records, in order, each with the timestamp of its
\* first record and its length as count.
C4_IncidentsAreMaximalRuns ==
  io.kind = "summary" =>
    /\ Len(io.sequences) = Cardinality(RunStarts(logs))
    /\ \A k \in 1..Len(io.sequences) :
         LET i == KthOf(RunStarts(logs), k)
         IN /\ io.sequences[k].start = logs[i].timestamp
            /\ io.sequences[k].count = RunLength(logs, i)
    /\ (Len(logs) > 0 /\ \A i \in 1..Len(logs) : ~logs[i].status) =>
         io.sequences = <<[start |-> logs[1].timestamp, count |-> Len(logs)]>>
C4_Witness ==
  /\ io.kind = "summary"
  /\ Len(logs) >= 4
  /\ ~logs[1].status /\ logs[2].status
  /\ ~logs[Len(logs) - 1].status /\ ~logs[Len(logs)].status
  /\ Len(io.sequences) = 2

RECURSIVE SumCounts(_)
SumCounts(sequences) ==
  IF Len(sequences) = 0 THEN 0
  ELSE sequences[1].count + SumCounts(Tail(sequences))

\* C5: the counts of the extracted incidents add up to the number of
\* unreachable records of the log.
C5_CountsSumToOffline ==
  io.kind = "summary" => SumCounts(io.sequences) = OfflineCount(logs)
C5_Witness ==
  /\ io.kind = "summary"
  /\ Len(io.sequences) >= 2
  /\ SumCounts(io.sequences) >= 3

\* C6: a stop and a start leave every record of the log in place.
C6_StopStartKeepLog ==
  [][(StopStep \/ StartStep) => logs' = logs]_vars
\* Running on a timer armed with a period of 1 s while the log holds a record
\* accounted at 5 s: the session was stopped, reconfigured and started again
C6_Witness ==
  /\ isMonitoring
  /\ Len(logs) = 1 /\ ~logs[1].status
  /\ totalDowntime = DefaultInterval * 1000
  /\ \E t \in probeTimers : t.period = 1

\* C7: stop disarms the probe trigger and the notification trigger: while
\* Idle no timer is armed, no probe is issued and no notification is sent.
C7_StopDisarmsBoth ==
  /\ [](~isMonitoring => probeTimers = {} /\ emailTimers = {})
  /\ [][(~isMonitoring /\ ~isMonitoring') =>
          issued' = issued /\ io'.kind # "post"]_vars
C7_Witness ==
  /\ build = "app" /\ ~isMonitoring /\ issued >= 1
  /\ ArmsEmail /\ inflight # {}

\* C8: a start moves Idle to Running and issues exactly one probe in the same
\* step, with the periodic trigger due only later; a tick issues exactly one
\* probe; nothing else issues a probe.
C8_StartProbesOnce ==
  [][/\ StartStep =>
          /\ issued' = issued + 1
          /\ \E p \in inflight' :
               /\ p \notin inflight
               /\ p.timestamp = now
               /\ inflight' = inflight \cup {p}
          /\ \A t \in probeTimers' : t.due > now
     /\ TickStep =>
          /\ issued' = issued + 1
          /\ Cardinality(inflight' \ inflight) = 1
     /\ issued' # issued => StartStep \/ TickStep]_vars
C8_Witness ==
  /\ isMonitoring
  /\ issued = 2
  /\ \E p \in inflight : p.timestamp = now /\ p.seq = 2
  /\ \E t \in probeTimers : t.due = now + t.period /\ now > 0

\* C9: a probe whose fetch settles, fulfilled or rejected or aborted, appends
\* exactly one record and leaves the scheduler as it is; the record of a
\* rejected or aborted fetch has status = false.
C9_ProbeNeverRaises ==
  [][SettleStep =>
       /\ Len(logs') = Len(logs) + 1
       /\ isMonitoring' = isMonitoring
       /\ probeTimers' = probeTimers
       /\ (\E p \in inflight : FetchReject(p, 0) \/ Abort(p, 0)) =>
            ~logs'[Len(logs')].status]_vars
C9_Witness ==
  \E i \in 1..Len(logs) : ~logs[i].status /\ logs[i].ttl = NoTtl

\* C10: no probe stays in flight longer than the timeout (the probing period,
\* which is what v2 hands to its AbortController).
C10_ProbeBoundedByTimeout ==
  \A p \in inflight : now - p.timestamp <= p.interval

\* C11: every record of the log has its ttl populated only if its status is
\* true: a record with status = false has ttl null.
C11_TtlOnlyWhenReachable ==
  \A i \in 1..Len(logs) : ~logs[i].status => logs[i].ttl = NoTtl

\* the log of before is a prefix of the log of after
IsPrefix(before, after) ==
  /\ Len(before) <= Len(after)
  /\ \A i \in 1..Len(before) : after[i] = before[i]

\* C12: the log is append-only except for clear: every step other than
\* clearLogs leaves the previous log as a prefix of the new log, and a
\* non-empty log becomes empty only through clearLogs.
C12_AppendOnlyExceptClear ==
  [][/\ ~ClearClick => IsPrefix(logs, logs')
     /\ (logs # <<>> /\ logs' = <<>>) => ClearClick]_vars
\* two probes have appended their records and a clear has removed one of them
C12_Witness ==
  /\ build = "app"
  /\ issued = 2 /\ inflight = {}
  /\ Len(logs) = 1

\* C13: the probing interval and the target endpoint change only while the
\* session is Idle: no step taken while Running changes either.
C13_ConfigOnlyWhileIdle ==
  [][isMonitoring => interval' = interval /\ pingUrl' = pingUrl]_vars

\* a probe settles with a record of status false
FailedProbeStep ==
  /\ SettleStep
  /\ Len(logs') = Len(logs) + 1
  /\ ~logs'[Len(logs')].status
\* a notification is posted and its delivery fails
FailedDeliveryStep == io'.kind = "post" /\ ~io'.delivered

\* C14: a failed probe or a failed notification delivery leaves a Running
\* scheduler Running with its periodic triggers armed as they were, and a
\* failed delivery leaves the log and the total downtime unchanged.
C14_FailuresAreNotFatal ==
  [][/\ (isMonitoring /\ (FailedProbeStep \/ FailedDeliveryStep)) =>
          /\ isMonitoring'
          /\ probeTimers' = probeTimers /\ probeTimers' # {}
          /\ emailTimers' = emailTimers
          /\ timerRef' = timerRef /\ emailTimerRef' = emailTimerRef
     /\ FailedDeliveryStep =>
          /\ isMonitoring /\ emailTimers' # {}
          /\ logs' = logs /\ totalDowntime' = totalDowntime]_vars
\* Running, right after a delivery failed, with the record of a failed probe
\* in the log
C14_Witness ==
  /\ isMonitoring
  /\ io.kind = "post" /\ ~io.delivered
  /\ \E i \in 1..Len(logs) : ~logs[i].status
  /\ probeTimers # {} /\ emailTimers # {}

\* the four components of a whole number of seconds
DurationComponents(total) ==
  <<[n |-> total \div 86400, unit |-> "d"],
    [n |-> (total \div 3600) % 24, unit |-> "h"],
    [n |-> (total \div 60) % 60, unit |-> "m"],
    [n |-> total % 60, unit |-> "s"]>>
NonZero(component) == component.n > 0
\* the non-zero components in the order d, h, m, s, separated by one space
ComponentsText(components) ==
  LET shown == SelectSeq(components, NonZero)
  IN Join([k \in 1..Len(shown) |-> ToString(shown[k].n) \o shown[k].unit], " ")

\* C15: formatDuration(ms) lists, in the order d, h, m, s, exactly the
\* non-zero components of floor(ms / 1000) seconds decomposed with s < 60,
\* m < 60, h < 24, and returns "0s" exactly when ms < 1000.
C15_FormatDurationDecomposes ==
  io.kind = "duration" =>
    LET total == io.ms \div 1000
        c == DurationComponents(total)
    IN /\ c[1].n * 86400 + c[2].n * 3600 + c[3].n * 60 + c[4].n = total
       /\ c[2].n < 24 /\ c[3].n < 60 /\ c[4].n < 60
       /\ io.ms >= 1000 => io.text = ComponentsText(c)
       /\ io.text = "0s" <=> io.ms < 1000
C15_Witness ==
  /\ io.kind = "duration"
  /\ io.ms = 90061000
  /\ io.text = "1d 1h 1m 1s"

\* C16: the incident summary is the fixed "no downtime" sentinel when the log
\* holds no unreachable record, and otherwise a numbered list with one line
\* per incident.
C16_SentinelOrNumberedList ==
  io.kind = "summary" =>
    IF OfflineCount(logs) = 0
    THEN io.text = NoDowntimeSentinel
    ELSE io.text =
           "\nDowntime Periods:\n"
             \o Join([k \in 1..Len(io.sequences) |->
                        IF build = "v2"
                        THEN PeriodLineV2(io.sequences[k], k - 1, interval)
                        ELSE PeriodLine(io.sequences[k], k - 1, interval)], "")

\* C17: a notification's payload (detailed log, total downtime, incident
\* summary) is computed from the log as it is when the trigger fires, not as
\* it was when the session was started; a saved report likewise is computed
\* from the log as it is when it is saved.  (io is the effect of the step
\* just taken, and neither step changes the log.)
C17_ReportsUseCurrentLog ==
  /\ io.kind = "post" =>
       /\ io.logs = DetailedLogs(logs)
       /\ io.totalDowntime = formatDuration(totalDowntime)
       /\ io.downtimeSummary = generateDowntimeSummary(build, logs, interval)
  /\ io.kind = "download" =>
       io.content =
         "Total Downtime: " \o formatDuration(totalDowntime) \o "\n"
           \o generateDowntimeSummary(build, logs, interval)
           \o "\n\nDetailed Logs:\n" \o DetailedLogs(logs)

\* C18: aggregation and formatting are pure: a step that generates the
\* incident summary for a saved report or a notification leaves the log, the
\* total downtime and the scheduler as they are, and generating the report
\* again from the same log and interval gives the same text, incident for
\* incident.
C18_AggregationIsPure ==
  /\ [][io'.kind \in {"download", "post"} =>
          UNCHANGED <<logs, totalDowntime, interval, isMonitoring, timerRef,
                      emailTimerRef, probeTimers, emailTimers, inflight,
                      issued>>]_vars
  /\ [](io.kind = "download" => io = saveToFile)
\* a report saved while Running with a probe in flight, of a log in which an
\* incident is open
C18_Witness ==
  /\ io.kind = "download"
  /\ isMonitoring /\ inflight # {}
  /\ Len(logs) >= 1 /\ ~logs[Len(logs)].status
  /\ Len(DowntimeSequences(build, logs)) = 1

\* C19: when a probe's round trip exceeds the tick interval, the next tick
\* fires while that probe is in flight: a due tick is never held back by a
\* probe in flight, it adds its probe to those in flight, and which of the
\* probes in flight completes next is not fixed by their order of issue.
C19_TicksOverlapProbes ==
  /\ [](\A t \in probeTimers, p \in inflight :
          (t.due = now /\ now - p.timestamp >= t.period /\ issued < MaxProbes)
            => ENABLED Tick(t))
  /\ [](\A p \in inflight :
          (build = "app" \/ now - p.timestamp <= p.interval)
            => ENABLED FetchResolve(p, 0))
  /\ [][(TickStep /\ inflight # {}) =>
          /\ inflight \subseteq inflight'
          /\ Cardinality(inflight') = Cardinality(inflight) + 1]_vars
\* the probe issued by a later tick has appended its record while a probe
\* issued a whole period before it is still in flight
C19_Witness ==
  \E p \in inflight :
    \E i \in 1..Len(logs) : logs[i].timestamp >= p.timestamp + p.interval

\* C20: when the target endpoint or the interval is changed while Running,
\* the next tick's probe uses the new value (as its target, and as its
\* timeout and downtime multiplier) without a stop and start: the probe a
\* tick issues carries the endpoint and the interval current at the tick.
C20_NextTickUsesNewConfig ==
  [][TickStep =>
       \A p \in inflight' \ inflight :
         /\ build = "v2" => p.url = pingUrl
         /\ p.interval = interval]_vars

\* C21: the three groupings (open on currentSequence.length === 0; open on
\* currentSequence.length === 0 || index === 0; open on !isInDowntime) return
\* the same sequence of (start, count) pairs for every log.
C21_GroupingsAgree ==
  io.kind = "summary" =>
    \A b \in AllBuilds : DowntimeSequences(b, logs) = io.sequences
\* a log that opens with a run of two unreachable records, at index 0, and
\* holds a second run after a reachable record
C21_Witness ==
  /\ io.kind = "summary"
  /\ build = "v1"
  /\ Len(logs) >= 4
  /\ ~logs[1].status /\ ~logs[2].status /\ logs[3].status /\ ~logs[4].status
  /\ io.sequences[1].count = 2

\* the sum over the incidents of a log of probeCount x interval x 1000
IncidentsTotal(b, ls, ivl) == SumCounts(DowntimeSequences(b, ls)) * ivl * 1000

\* C22: the total downtime shown in the header of a report equals the sum of
\* the durations of the incidents listed under it, also after the interval
\* was changed while Idle between two monitoring runs.
C22_HeaderIsSumOfIncidents ==
  io.kind = "download" =>
    /\ totalDowntime = IncidentsTotal(build, logs, interval)
    /\ io.content =
         "Total Downtime: "
           \o formatDuration(IncidentsTotal(build, logs, interval)) \o "\n"
           \o generateDowntimeSummary(build, logs, interval)
           \o "\n\nDetailed Logs:\n" \o DetailedLogs(logs)

\* C23: a probe in flight at a stop is not discarded: it stays in flight,
\* can complete while the session is Idle and then appends its record; while
\* Idle no probe is issued and each record appended takes one probe out of
\* those in flight, so no more records are appended than probes were in
\* flight at the stop; once none is in flight the log changes only through a
\* clear (or after a later start).
C23_InFlightAtStopAppends ==
  /\ [](~isMonitoring =>
          \A p \in inflight : ENABLED (FetchReject(p, 0) \/ Abort(p, 0)))
  /\ [][/\ StopStep => inflight' = inflight
        /\ (~isMonitoring /\ ~isMonitoring') =>
             /\ issued' = issued
             /\ inflight' \subseteq inflight
             /\ SettleStep => Len(logs') = Len(logs) + 1
             /\ Len(logs') > Len(logs) =>
                  /\ Len(logs') = Len(logs) + 1
                  /\ Cardinality(inflight') = Cardinality(inflight) - 1
        /\ (~isMonitoring /\ inflight = {} /\ logs' # logs) =>
             ClearClick \/ StartStep]_vars
\* Idle with every timer disarmed, one of the two probes issued still in
\* flight and the record of the other in the log
C23_Witness ==
  /\ ~isMonitoring
  /\ probeTimers = {} /\ emailTimers = {}
  /\ issued = 2 /\ Cardinality(inflight) = 1
  /\ Len(logs) = 1

\* C24: when clearLogs runs while a probe is in flight, no record appended
\* before the clear reappears: the clear empties the log, zeroes the total
\* and leaves the probe in flight, and the probe on completing appends its
\* one record to the log as it is then, the total being computed from that
\* log alone.
C24_ClearedRecordsStayCleared ==
  [][/\ ClearClick =>
          /\ logs' = <<>> /\ totalDowntime' = 0
          /\ inflight' = inflight
     /\ SettleStep =>
          \E p \in inflight \ inflight' :
            /\ Len(logs') = Len(logs) + 1
            /\ IsPrefix(logs, logs')
            /\ logs'[Len(logs')].timestamp = p.timestamp
            /\ totalDowntime' = calculateTotalDowntime(logs', p.interval)]_vars
\* the second session's probe has appended and its record was cleared while
\* the first session's probe, issued with an interval of 5 s, was in flight;
\* that probe then failed: its record is the whole log, accounted at 5 s
C24_Witness ==
  /\ build = "app"
  /\ isMonitoring /\ interval = 1
  /\ issued = 2 /\ inflight = {}
  /\ Len(logs) = 1 /\ ~logs[1].status
  /\ totalDowntime = DefaultInterval * 1000

====
